---- MODULE Spec2Model ----
(***************************************************************************)
(* Model of server/functionality.go of mev-boost: the getHeader auction,   *)
(* the getPayload race (processDenebPayload / processElectraPayload) and   *)
(* the slot-UID registry they share.                                       *)
(*                                                                         *)
(* Hashes, public keys and values are small naturals.  A hex string is the *)
(* record [len, val]: its length in characters and the number it denotes;  *)
(* Hash.String() always yields the canonical 66-character form.            *)
(***************************************************************************)
EXTENDS Integers, Sequences, FiniteSets, TLC

\* ------------------------------------------------------------------ bounds
MaxRelays == 2      \* configured relays: 0..MaxRelays
MaxHash   == 2      \* block hashes 0..MaxHash (0 is nilHash)
MaxValue  == 2      \* bid values 0..MaxValue (wei)
MaxSlot   == 1      \* slots 0..MaxSlot
MaxBlobs  == 1      \* blob commitments per block: 0..MaxBlobs
MaxCalls  == 3      \* concurrent getHeader / getPayload calls on the registry

\* ------------------------------------------------------- program constants
PubkeyHexLen == 98
HashHexLen   == 66
nilHash      == 0
EmptyListTxRoot == "0x7ffe241ea60187fdb0187bfa22de35d1f9bed7ab061d9401fd47e34a54fbede1"
OtherTxRoot     == "0x01"
ZeroTxRoot      == "0x00"
NilUUID == [id |-> 0]   \* uuid.UUID zero value; uuid.New() yields [id |-> n], n >= 1

VARIABLES
    \* BoostService fields
    mRelays,              \* m.relays: the relays are 1..mRelays, relay r has public key r
    relayMinBid,          \* m.relayMinBid
    skipSigCheck,         \* config.SkipRelaySignatureCheck
    slotUID,              \* m.slotUID: [slot, uid]
    nextUID,              \* uuid generator: the next value uuid.New() returns
    \* getHeader: arguments, locals and goroutines
    hSlot, hPubkey, hParentHashHex,
    hpc,                  \* position of the getHeader caller
    hUID,                 \* local slotUID
    hIdx,                 \* relays already started by the range loop
    wg,                   \* sync.WaitGroup counter
    tpc,                  \* position of each relay goroutine
    responsePayload,      \* each goroutine's responsePayload once it has passed validation
    sent,                 \* per relay: the SlotUID header of the request issued, or NoRequest
    result,               \* local result (bidResp)
    relays,               \* local relays: blockHash -> relays that delivered it
    hret,                 \* what getHeader returned: [result, err], or NoReturn
    \* getPayload (processDenebPayload / processElectraPayload)
    bids,                 \* m.bids: the bid cache, bidKey -> bidResp
    pFork,                \* "deneb" or "electra": which of the two functions runs
    blindedBlock,         \* argument: [slot, blockHash, commitments]
    ppc,                  \* position of the getPayload caller
    currentSlotUID,       \* local currentSlotUID
    originalBid,          \* local originalBid
    resultCh,             \* buffer of the channel resultCh
    received,             \* atomic.Bool received
    ctxCancelled,         \* requestCtx.Err() is context.Canceled
    spc,                  \* position of the timeout goroutine
    pIdx,                 \* relays already started by the range loop
    qpc,                  \* position of each relay goroutine
    qerr,                 \* each goroutine's err from SendHTTPRequestWithRetries
    qresp,                \* each goroutine's responsePayload once it has passed the checks
    qlog,                 \* per relay: the log entry its goroutine ended with
    psent,                \* per relay: the SlotUID header of the request issued, or NoRequest
    presult,              \* local result, once received from resultCh
    pret,                 \* what getPayload returned: [payload, bid], or NoReturn
    \* concurrent calls on the registry
    calls                 \* per call: [kind, slot, pc, uid], uid the SlotUID header it uses

hdrVars == <<hSlot, hPubkey, hParentHashHex, hpc, hUID, hIdx, wg, tpc,
             responsePayload, sent, result, relays, hret>>
cfgVars == <<mRelays, relayMinBid, skipSigCheck>>
regVars == <<slotUID, nextUID>>
payVars == <<bids, pFork, blindedBlock, ppc, currentSlotUID, originalBid, resultCh,
             received, ctxCancelled, spc, pIdx, qpc, qerr, qresp, qlog, psent,
             presult, pret>>
vars == <<cfgVars, regVars, hdrVars, payVars, calls>>

\* ------------------------------------------------------------------ values
RelayIds  == 1..MaxRelays
Relays    == 1..mRelays
Hashes    == 0..MaxHash
Values    == 0..MaxValue
Slots     == 0..MaxSlot

ParentHashes == {1, 2}

HexString(l, v) == [len |-> l, val |-> v]
\* common.Hash.String(): the canonical 0x-prefixed 64-digit form
HashString(h) == HexString(HashHexLen, h)
\* Go's >= on strings; both operands are Hash.String() results, so they have
\* the same length and the same case and compare as the numbers they denote
StringGE(a, b) == a.val >= b.val

NoResponse == [kind |-> "none"]
\* zero value of builderSpec.VersionedSignedBuilderBid
EmptyResponse ==
    [kind |-> "empty", blockHash |-> nilHash, value |-> 0, pubkey |-> 0,
     sig |-> "invalid", parentHash |-> nilHash, txRoot |-> ZeroTxRoot]
\* what SendHTTPRequest can hand a relay goroutine; sig is the outcome of
\* checkRelaySignature on the response: "invalid" stands for both !ok and err
BidResponses ==
    [kind : {"bid"}, blockHash : Hashes, value : Values, pubkey : RelayIds,
     sig : {"valid", "invalid"}, parentHash : ParentHashes,
     txRoot : {EmptyListTxRoot, OtherTxRoot}]
Responses ==
    {[EmptyResponse EXCEPT !.kind = k] : k \in {"error", "noContent", "empty", "parseError"}}
    \cup BidResponses

IsEmpty(p) == p.kind = "empty"

ZeroBidInfo ==
    [blockHash |-> nilHash, parentHash |-> nilHash, pubkey |-> 0,
     txRoot |-> ZeroTxRoot, value |-> 0]
\* the fields parseBidInfo extracts from a response
BidInfoOf(p) ==
    [blockHash |-> p.blockHash, parentHash |-> p.parentHash, pubkey |-> p.pubkey,
     txRoot |-> p.txRoot, value |-> p.value]

EmptyBidResp == [response |-> EmptyResponse, bidInfo |-> ZeroBidInfo, relays |-> <<>>]
NoReturn  == [err |-> "pending"]
NoRequest == [issued |-> FALSE]
\* uuid.UUID.String(): never the empty string, also for the zero UUID
UIDString(u) == [empty |-> FALSE, id |-> u.id]
EmptyString == [empty |-> TRUE, id |-> 0]

\* ------------------------------------------------------- slot-UID registry
\* ObserveSlot with != in place of <
ObserveSlotOnChange(reg, slot, fresh) ==
    IF reg.slot # slot THEN [slot |-> slot, uid |-> fresh] ELSE reg

\* ObserveSlot with <= in place of <: a new uid for every call of the slot
ObserveSlotRefresh(reg, slot, fresh) ==
    IF reg.slot <= slot THEN [slot |-> slot, uid |-> fresh] ELSE reg

\* "Make sure we have a uid for this slot": the critical section of getHeader
ObserveSlot(reg, slot, fresh) ==
    IF reg.slot < slot THEN [slot |-> slot, uid |-> fresh] ELSE reg

\* --------------------------------------------------------------- getHeader
\* ArgError without the parent-hash length check
ArgErrorNoHashCheck(pubkey, parentHashHex) ==
    IF pubkey.len # PubkeyHexLen THEN "errInvalidPubkey" ELSE "nil"

\* the length checks at the head of getHeader
ArgError(pubkey, parentHashHex) ==
    IF pubkey.len # PubkeyHexLen THEN "errInvalidPubkey"
    ELSE IF parentHashHex.len # HashHexLen THEN "errInvalidHash"
    ELSE "nil"

GetHeaderCheckArgs ==
    /\ hpc = "entry"
    /\ LET err == ArgError(hPubkey, hParentHashHex) IN
        IF err # "nil"
        THEN /\ hret' = [result |-> EmptyBidResp, err |-> err]
             /\ hpc' = "returned"
        ELSE /\ hpc' = "observe"
             /\ UNCHANGED hret
    /\ UNCHANGED <<cfgVars, payVars, calls, regVars, hSlot, hPubkey, hParentHashHex, hUID, hIdx, wg,
                   tpc, responsePayload, sent, result, relays>>

GetHeaderObserve ==
    /\ hpc = "observe"
    /\ slotUID' = ObserveSlot(slotUID, hSlot, [id |-> nextUID])
    /\ nextUID' = IF slotUID' # slotUID THEN nextUID + 1 ELSE nextUID
    /\ hUID' = slotUID'.uid
    /\ hpc' = "loop"
    /\ UNCHANGED <<cfgVars, payVars, calls, hSlot, hPubkey, hParentHashHex, hIdx, wg, tpc,
                   responsePayload, sent, result, relays, hret>>

\* one iteration of "for _, relay := range m.relays": wg.Add(1); go func(relay)
GetHeaderSpawn ==
    /\ hpc = "loop"
    /\ hIdx < mRelays
    /\ hIdx' = hIdx + 1
    /\ wg' = wg + 1
    /\ tpc' = [tpc EXCEPT ![hIdx + 1] = "running"]
    /\ UNCHANGED <<cfgVars, payVars, calls, regVars, hSlot, hPubkey, hParentHashHex, hpc, hUID,
                   responsePayload, sent, result, relays, hret>>

\* Validate without the parent-hash comparison
ValidateNoParentCheck(relay, p, parentHashHex, skip, minBid) ==
    IF p.kind # "bid" THEN "rejected"
    ELSE IF p.blockHash = nilHash THEN "emptyBlockHash"
    ELSE IF relay # p.pubkey THEN "pubkeyMismatch"
    ELSE IF ~skip /\ p.sig # "valid" THEN "signatureInvalid"
    ELSE IF p.value = 0 \/ p.txRoot = EmptyListTxRoot THEN "zeroValue"
    ELSE IF p.value < minBid THEN "belowMinBid"
    ELSE "accepted"

\* Validate that also rejects a bid equal to the minimum
ValidateAboveMinBid(relay, p, parentHashHex, skip, minBid) ==
    IF p.kind # "bid" THEN "rejected"
    ELSE IF p.blockHash = nilHash THEN "emptyBlockHash"
    ELSE IF relay # p.pubkey THEN "pubkeyMismatch"
    ELSE IF ~skip /\ p.sig # "valid" THEN "signatureInvalid"
    ELSE IF HashString(p.parentHash) # parentHashHex THEN "parentHashMismatch"
    ELSE IF p.value = 0 \/ p.txRoot = EmptyListTxRoot THEN "zeroValue"
    ELSE IF p.value <= minBid THEN "belowMinBid"
    ELSE "accepted"

\* the checks of a relay goroutine between the HTTP call and mu.Lock(), in
\* the order of the code: the first failing one, or "accepted"
Validate(relay, p, parentHashHex, skip, minBid) ==
    IF p.kind = "error" THEN "requestError"
    ELSE IF p.kind = "noContent" THEN "noContent"
    ELSE IF IsEmpty(p) THEN "empty"
    ELSE IF p.kind = "parseError" THEN "parseError"
    ELSE LET bidInfo == BidInfoOf(p) IN
         IF bidInfo.blockHash = nilHash THEN "emptyBlockHash"
         ELSE IF relay # bidInfo.pubkey THEN "pubkeyMismatch"
         ELSE IF ~skip /\ p.sig # "valid" THEN "signatureInvalid"
         ELSE IF HashString(bidInfo.parentHash) # parentHashHex THEN "parentHashMismatch"
         ELSE IF bidInfo.value = 0 \/ bidInfo.txRoot = EmptyListTxRoot THEN "zeroValue"
         ELSE IF bidInfo.value < minBid THEN "belowMinBid"
         ELSE "accepted"

\* uint256.Int.Cmp
Cmp(a, b) == IF a < b THEN -1 ELSE IF a = b THEN 0 ELSE 1

\* Replaces without the tie-break: on equal value the earlier bid stays
ReplacesNoTieBreak(res, bidInfo) ==
    IsEmpty(res.response) \/ Cmp(bidInfo.value, res.bidInfo.value) = 1

\* Replaces with the tie-break comparison off by one: > instead of >=
ReplacesOnEqualHash(res, bidInfo) ==
    \/ IsEmpty(res.response)
    \/ Cmp(bidInfo.value, res.bidInfo.value) = 1
    \/ /\ Cmp(bidInfo.value, res.bidInfo.value) = 0
       /\ bidInfo.blockHash <= res.bidInfo.blockHash

\* "Compare the bid with already known top bid (if any)": TRUE iff the
\* candidate becomes the new best bid
Replaces(res, bidInfo) ==
    IF ~IsEmpty(res.response)
    THEN LET valueDiff == Cmp(bidInfo.value, res.bidInfo.value) IN
         IF valueDiff = -1 THEN FALSE
         ELSE IF valueDiff = 0
              THEN ~StringGE(HashString(bidInfo.blockHash), HashString(res.bidInfo.blockHash))
              ELSE TRUE
    ELSE TRUE

\* RelayRespond where a failing relay resets the best bid
RelayRespondClearsOnReject(r) ==
    /\ tpc[r] = "running"
    /\ sent' = [sent EXCEPT ![r] = [issued |-> TRUE, slotUID |-> UIDString(hUID)]]
    /\ \/ \E p \in Responses :
            /\ Validate(r, p, hParentHashHex, skipSigCheck, relayMinBid) = "accepted"
            /\ tpc' = [tpc EXCEPT ![r] = "ranking"]
            /\ responsePayload' = [responsePayload EXCEPT ![r] = p]
            /\ UNCHANGED <<wg, result>>
       \/ /\ ~(\A p \in Responses :
                 Validate(r, p, hParentHashHex, skipSigCheck, relayMinBid) = "accepted")
          /\ tpc' = [tpc EXCEPT ![r] = "done"]
          /\ wg' = wg - 1
          /\ result' = EmptyBidResp
          /\ UNCHANGED responsePayload
    /\ UNCHANGED <<cfgVars, payVars, calls, regVars, hSlot, hPubkey, hParentHashHex, hpc, hUID, hIdx,
                   relays, hret>>

\* the goroutine of relay r up to mu.Lock(), the request and the validation:
\* a response that passes goes on to the mutex, any other ends the goroutine
RelayRespond(r) ==
    /\ tpc[r] = "running"
    /\ sent' = [sent EXCEPT ![r] = [issued |-> TRUE, slotUID |-> UIDString(hUID)]]
    /\ \/ \E p \in Responses :
            /\ Validate(r, p, hParentHashHex, skipSigCheck, relayMinBid) = "accepted"
            /\ tpc' = [tpc EXCEPT ![r] = "ranking"]
            /\ responsePayload' = [responsePayload EXCEPT ![r] = p]
            /\ UNCHANGED wg
       \/ /\ ~(\A p \in Responses :
                 Validate(r, p, hParentHashHex, skipSigCheck, relayMinBid) = "accepted")
          /\ tpc' = [tpc EXCEPT ![r] = "done"]
          /\ wg' = wg - 1
          /\ UNCHANGED responsePayload
    /\ UNCHANGED <<cfgVars, payVars, calls, regVars, hSlot, hPubkey, hParentHashHex, hpc, hUID, hIdx,
                   result, relays, hret>>

\* the critical section of relay r: slot-book entry and ranking step
RankStep(r) ==
    /\ tpc[r] = "ranking"
    /\ LET p == responsePayload[r]
           bidInfo == BidInfoOf(p)
       IN /\ relays' = [relays EXCEPT ![bidInfo.blockHash] = Append(@, r)]
          /\ result' = IF Replaces(result, bidInfo)
                        THEN [result EXCEPT !.response = p, !.bidInfo = bidInfo]
                        ELSE result
    /\ tpc' = [tpc EXCEPT ![r] = "done"]
    /\ wg' = wg - 1
    /\ UNCHANGED <<cfgVars, payVars, calls, regVars, hSlot, hPubkey, hParentHashHex, hpc, hUID, hIdx,
                   responsePayload, sent, hret>>

\* a Wait that does not wait
WaitDoneAtOnce(counter) == TRUE

\* wg.Wait() is over when the counter is zero
WaitDone(counter) == counter = 0

\* only the first relay that delivered the winning hash
WinningRelaysFirstOnly(res, book) ==
    IF book[res.bidInfo.blockHash] = <<>> THEN <<>>
    ELSE <<Head(book[res.bidInfo.blockHash])>>

\* relays[BlockHashHex(result.bidInfo.blockHash.String())]: the slot-book
\* entry of the best bid's hash; no entry (nil) for a hash never recorded
WinningRelays(res, book) == book[res.bidInfo.blockHash]

\* wg.Wait(), "Set the winning relay before returning", return
GetHeaderReturn ==
    /\ hpc = "loop"
    /\ hIdx = mRelays
    /\ WaitDone(wg)
    /\ hpc' = "returned"
    /\ hret' = [result |-> [result EXCEPT !.relays = WinningRelays(result, relays)],
                err |-> "nil"]
    /\ UNCHANGED <<cfgVars, payVars, calls, regVars, hSlot, hPubkey, hParentHashHex, hUID, hIdx, wg,
                   tpc, responsePayload, sent, result, relays>>

\* --------------------------------------------------------------- getPayload
Null == [kind |-> "nil"]
NoError == "nil"
Forks == {"deneb", "electra"}
\* spec.DataVersionDeneb / spec.DataVersionElectra: the version each function expects
ExpectedVersion(fork) == fork

\* the blob commitments a blinded block of k blobs carries
BlockCommitments(k) == [i \in 1..k |-> i]
CommitmentLists == UNION {[1..k -> 1..(MaxBlobs + 1)] : k \in 0..MaxBlobs}
\* what a successful SendHTTPRequestWithRetries can leave in responsePayload;
\* blobs and proofs are modelled by their lengths
PayloadResponses ==
    [kind : {"payload"}, version : Forks \cup {"capella"}, empty : BOOLEAN,
     blockHash : 1..MaxHash, blobs : 0..MaxBlobs, commitments : CommitmentLists,
     proofs : 0..MaxBlobs]

bidKey(slot, blockHash) == <<slot, blockHash>>
BidKeys == Slots \X (1..MaxHash)

\* PayloadCheck without the element-wise comparison of the commitments
PayloadCheckLengthsOnly(p, block, fork) ==
    IF p.version # ExpectedVersion(fork) THEN "wrongVersion"
    ELSE IF p.empty THEN "empty"
    ELSE IF block.blockHash # p.blockHash THEN "blockHashMismatch"
    ELSE IF \/ Len(block.commitments) # p.blobs
            \/ Len(block.commitments) # Len(p.commitments)
            \/ Len(block.commitments) # p.proofs
         THEN "blobLengthMismatch"
    ELSE "ok"

\* the checks of a relay goroutine on a response, in the order of the code:
\* the first failing one, or "ok"
PayloadCheck(p, block, fork) ==
    IF p.version # ExpectedVersion(fork) THEN "wrongVersion"
    ELSE IF p.empty THEN "empty"
    ELSE IF block.blockHash # p.blockHash THEN "blockHashMismatch"
    ELSE IF \/ Len(block.commitments) # p.blobs
            \/ Len(block.commitments) # Len(p.commitments)
            \/ Len(block.commitments) # p.proofs
         THEN "blobLengthMismatch"
    ELSE IF \E i \in 1..Len(block.commitments) : block.commitments[i] # p.commitments[i]
         THEN "commitmentMismatch"
    ELSE "ok"

\* the registry's uid attached whatever slot the registry is at
LookupSlotUIDAlways(reg, slot) == UIDString(reg.uid)

\* "Get the currentSlotUID for this slot"
LookupSlotUID(reg, slot) == IF reg.slot = slot THEN UIDString(reg.uid) ELSE EmptyString

GetPayloadSlotUID ==
    /\ ppc = "entry"
    /\ currentSlotUID' = LookupSlotUID(slotUID, blindedBlock.slot)
    /\ ppc' = "getBid"
    /\ UNCHANGED <<cfgVars, regVars, hdrVars, calls, bids, pFork, blindedBlock, originalBid,
                   resultCh, received, ctxCancelled, spc, pIdx, qpc, qerr, qresp, qlog,
                   psent, presult, pret>>

\* GetPayloadGetBid that gives up when the cache has no usable record
GetPayloadGetBidAborts ==
    /\ ppc = "getBid"
    /\ originalBid' = bids[bidKey(blindedBlock.slot, blindedBlock.blockHash)]
    /\ IF IsEmpty(originalBid'.response) \/ Len(originalBid'.relays) = 0
       THEN /\ ppc' = "returned"
            /\ pret' = [payload |-> Null, bid |-> originalBid']
       ELSE /\ ppc' = "prepare"
            /\ UNCHANGED pret
    /\ UNCHANGED <<cfgVars, regVars, hdrVars, calls, bids, pFork, blindedBlock, currentSlotUID,
                   resultCh, received, ctxCancelled, spc, pIdx, qpc, qerr, qresp, qlog,
                   psent, presult>>

\* "Get the bid!": a missing or relay-less record is logged and the call goes on
GetPayloadGetBid ==
    /\ ppc = "getBid"
    /\ originalBid' = bids[bidKey(blindedBlock.slot, blindedBlock.blockHash)]
    /\ ppc' = "prepare"
    /\ UNCHANGED <<cfgVars, regVars, hdrVars, calls, bids, pFork, blindedBlock, currentSlotUID,
                   resultCh, received, ctxCancelled, spc, pIdx, qpc, qerr, qresp, qlog,
                   psent, presult, pret>>

\* a buffer one slot short of len(m.relays)
ChanCapOneShort == mRelays - 1

\* capacity of resultCh
ChanCap == mRelays

\* make(chan, len(m.relays)), var received, go func() { time.Sleep; resultCh <- nil },
\* context.WithCancel
GetPayloadPrepare ==
    /\ ppc = "prepare"
    /\ resultCh' = <<>>
    /\ received' = FALSE
    /\ ctxCancelled' = FALSE
    /\ spc' = "sleeping"
    /\ ppc' = "loop"
    /\ UNCHANGED <<cfgVars, regVars, hdrVars, calls, bids, pFork, blindedBlock, currentSlotUID,
                   originalBid, pIdx, qpc, qerr, qresp, qlog, psent, presult, pret>>

\* one iteration of "for _, relay := range m.relays": go func(relay)
GetPayloadSpawn ==
    /\ ppc = "loop"
    /\ pIdx < mRelays
    /\ pIdx' = pIdx + 1
    /\ qpc' = [qpc EXCEPT ![pIdx + 1] = "requesting"]
    /\ psent' = [psent EXCEPT ![pIdx + 1] = [issued |-> TRUE, slotUID |-> currentSlotUID]]
    /\ UNCHANGED <<cfgVars, regVars, hdrVars, calls, bids, pFork, blindedBlock, ppc,
                   currentSlotUID, originalBid, resultCh, received, ctxCancelled, spc,
                   qerr, qresp, qlog, presult, pret>>

\* the range loop is over: the caller blocks in "result := <-resultCh"
GetPayloadAwait ==
    /\ ppc = "loop"
    /\ pIdx = mRelays
    /\ ppc' = "receive"
    /\ UNCHANGED <<cfgVars, regVars, hdrVars, calls, bids, pFork, blindedBlock, currentSlotUID,
                   originalBid, resultCh, received, ctxCancelled, spc, pIdx, qpc, qerr,
                   qresp, qlog, psent, presult, pret>>

\* a send on resultCh can proceed: the receiver is waiting, or the buffer has room
CanSend == (ppc = "receive" /\ resultCh = <<>>) \/ Len(resultCh) < ChanCap

\* resultCh <- v: handed to the waiting receiver, or buffered
ChanSend(v) ==
    IF ppc = "receive" /\ resultCh = <<>>
    THEN /\ presult' = v
         /\ ppc' = "received"
         /\ UNCHANGED resultCh
    ELSE /\ resultCh' = Append(resultCh, v)
         /\ UNCHANGED <<presult, ppc>>

\* a receive that drains the buffer and keeps the latest value
GetPayloadReceiveLast ==
    /\ ppc = "receive"
    /\ resultCh # <<>>
    /\ presult' = resultCh[Len(resultCh)]
    /\ resultCh' = <<>>
    /\ ppc' = "received"
    /\ UNCHANGED <<cfgVars, regVars, hdrVars, calls, bids, pFork, blindedBlock, currentSlotUID,
                   originalBid, received, ctxCancelled, spc, pIdx, qpc, qerr, qresp,
                   qlog, psent, pret>>

\* result := <-resultCh, from the buffer
GetPayloadReceive ==
    /\ ppc = "receive"
    /\ resultCh # <<>>
    /\ presult' = Head(resultCh)
    /\ resultCh' = Tail(resultCh)
    /\ ppc' = "received"
    /\ UNCHANGED <<cfgVars, regVars, hdrVars, calls, bids, pFork, blindedBlock, currentSlotUID,
                   originalBid, received, ctxCancelled, spc, pIdx, qpc, qerr, qresp,
                   qlog, psent, pret>>

\* a return without the deferred requestCtxCancel()
GetPayloadReturnNoCancel ==
    /\ ppc = "received"
    /\ pret' = [payload |-> presult, bid |-> originalBid]
    /\ ppc' = "returned"
    /\ UNCHANGED <<cfgVars, regVars, hdrVars, calls, bids, pFork, blindedBlock, currentSlotUID,
                   originalBid, resultCh, received, ctxCancelled, spc, pIdx, qpc, qerr,
                   qresp, qlog, psent, presult>>

\* return result, originalBid; the deferred requestCtxCancel() runs
GetPayloadReturn ==
    /\ ppc = "received"
    /\ pret' = [payload |-> presult, bid |-> originalBid]
    /\ ctxCancelled' = TRUE
    /\ ppc' = "returned"
    /\ UNCHANGED <<cfgVars, regVars, hdrVars, calls, bids, pFork, blindedBlock, currentSlotUID,
                   originalBid, resultCh, received, spc, pIdx, qpc, qerr, qresp, qlog,
                   psent, presult>>

\* a timeout goroutine that ends without posting
SentinelEndsSilently ==
    /\ spc = "sleeping"
    /\ spc' = "done"
    /\ UNCHANGED <<cfgVars, regVars, hdrVars, calls, bids, pFork, blindedBlock, ppc,
                   currentSlotUID, originalBid, resultCh, received, ctxCancelled, pIdx,
                   qpc, qerr, qresp, qlog, psent, presult, pret>>

\* time.Sleep(m.httpClientGetPayload.Timeout) is over
SentinelWake ==
    /\ spc = "sleeping"
    /\ spc' = "sending"
    /\ UNCHANGED <<cfgVars, regVars, hdrVars, calls, bids, pFork, blindedBlock, ppc,
                   currentSlotUID, originalBid, resultCh, received, ctxCancelled, pIdx,
                   qpc, qerr, qresp, qlog, psent, presult, pret>>

\* resultCh <- nil
SentinelSend ==
    /\ spc = "sending"
    /\ CanSend
    /\ ChanSend(Null)
    /\ spc' = "done"
    /\ UNCHANGED <<cfgVars, regVars, hdrVars, calls, bids, pFork, blindedBlock, currentSlotUID,
                   originalBid, received, ctxCancelled, pIdx, qpc, qerr, qresp, qlog,
                   psent, pret>>

\* the errors SendHTTPRequestWithRetries can return: a cancellation only once
\* requestCtx is cancelled, any other failure at any time
RequestErrors == IF ctxCancelled THEN {"canceled", "failed"} ELSE {"failed"}

\* SendHTTPRequestWithRetries of relay r returns an error
PayloadRequestFails(r) ==
    /\ qpc[r] = "requesting"
    /\ \E e \in RequestErrors : qerr' = [qerr EXCEPT ![r] = e]
    /\ qpc' = [qpc EXCEPT ![r] = "failed"]
    /\ UNCHANGED <<cfgVars, regVars, hdrVars, calls, bids, pFork, blindedBlock, ppc,
                   currentSlotUID, originalBid, resultCh, received, ctxCancelled, spc,
                   pIdx, qresp, qlog, psent, presult, pret>>

\* the error classified by what it is instead of by the state of requestCtx
ErrorLogByError(err, cancelled) == IF err = "canceled" THEN "cancelled" ELSE "error"

\* errors.Is(requestCtx.Err(), context.Canceled): the log entry for an error
ErrorLog(err, cancelled) == IF cancelled THEN "cancelled" ELSE "error"

\* if err != nil { ...; return }
PayloadHandleError(r) ==
    /\ qpc[r] = "failed"
    /\ qlog' = [qlog EXCEPT ![r] = ErrorLog(qerr[r], ctxCancelled)]
    /\ qpc' = [qpc EXCEPT ![r] = "done"]
    /\ UNCHANGED <<cfgVars, regVars, hdrVars, calls, bids, pFork, blindedBlock, ppc,
                   currentSlotUID, originalBid, resultCh, received, ctxCancelled, spc,
                   pIdx, qerr, qresp, psent, presult, pret>>

\* PayloadRespond with received set before the checks instead of after them
PayloadRespondMarksReceived(r) ==
    /\ qpc[r] = "requesting"
    /\ \/ \E p \in PayloadResponses :
            /\ PayloadCheck(p, blindedBlock, pFork) = "ok"
            /\ qresp' = [qresp EXCEPT ![r] =
                            [version |-> p.version, blockHash |-> p.blockHash,
                             blobs |-> p.blobs, commitments |-> p.commitments,
                             proofs |-> p.proofs, kind |-> "payload", relay |-> r]]
            /\ qpc' = [qpc EXCEPT ![r] = "passed"]
            /\ UNCHANGED <<qlog, received>>
       \/ /\ ~(\A p \in PayloadResponses : PayloadCheck(p, blindedBlock, pFork) = "ok")
          /\ qlog' = [qlog EXCEPT ![r] = "invalid"]
          /\ qpc' = [qpc EXCEPT ![r] = "done"]
          /\ received' = TRUE
          /\ UNCHANGED qresp
    /\ UNCHANGED <<cfgVars, regVars, hdrVars, calls, bids, pFork, blindedBlock, ppc,
                   currentSlotUID, originalBid, resultCh, ctxCancelled, spc,
                   pIdx, qerr, psent, presult, pret>>

\* SendHTTPRequestWithRetries of relay r returns a response, which is
\* checked: one that passes all checks takes the goroutine on to
\* requestCtxCancel(), any other is logged and ends it
PayloadRespond(r) ==
    /\ qpc[r] = "requesting"
    /\ \/ \E p \in PayloadResponses :
            /\ PayloadCheck(p, blindedBlock, pFork) = "ok"
            /\ qresp' = [qresp EXCEPT ![r] =
                            [version |-> p.version, blockHash |-> p.blockHash,
                             blobs |-> p.blobs, commitments |-> p.commitments,
                             proofs |-> p.proofs, kind |-> "payload", relay |-> r]]
            /\ qpc' = [qpc EXCEPT ![r] = "passed"]
            /\ UNCHANGED qlog
       \/ /\ ~(\A p \in PayloadResponses : PayloadCheck(p, blindedBlock, pFork) = "ok")
          /\ qlog' = [qlog EXCEPT ![r] = "invalid"]
          /\ qpc' = [qpc EXCEPT ![r] = "done"]
          /\ UNCHANGED qresp
    /\ UNCHANGED <<cfgVars, regVars, hdrVars, calls, bids, pFork, blindedBlock, ppc,
                   currentSlotUID, originalBid, resultCh, received, ctxCancelled, spc,
                   pIdx, qerr, psent, presult, pret>>

\* requestCtxCancel() of a goroutine whose response passed the checks
PayloadCancel(r) ==
    /\ qpc[r] = "passed"
    /\ ctxCancelled' = TRUE
    /\ qpc' = [qpc EXCEPT ![r] = "cas"]
    /\ UNCHANGED <<cfgVars, regVars, hdrVars, calls, bids, pFork, blindedBlock, ppc,
                   currentSlotUID, originalBid, resultCh, received, spc, pIdx, qerr,
                   qresp, qlog, psent, presult, pret>>

\* a swap that always succeeds
SwapsAlways(old) == TRUE

\* received.CompareAndSwap(false, true) succeeds iff the old value is false
Swaps(old) == old = FALSE

\* if received.CompareAndSwap(false, true) { ... } else { discard }
PayloadCAS(r) ==
    /\ qpc[r] = "cas"
    /\ IF Swaps(received)
       THEN /\ received' = TRUE
            /\ qpc' = [qpc EXCEPT ![r] = "send"]
            /\ UNCHANGED qlog
       ELSE /\ qlog' = [qlog EXCEPT ![r] = "discarded"]
            /\ qpc' = [qpc EXCEPT ![r] = "done"]
            /\ UNCHANGED received
    /\ UNCHANGED <<cfgVars, regVars, hdrVars, calls, bids, pFork, blindedBlock, ppc,
                   currentSlotUID, originalBid, resultCh, ctxCancelled, spc, pIdx, qerr,
                   qresp, psent, presult, pret>>

\* resultCh <- responsePayload; log "received payload from relay"
PayloadSend(r) ==
    /\ qpc[r] = "send"
    /\ CanSend
    /\ ChanSend(qresp[r])
    /\ qlog' = [qlog EXCEPT ![r] = "posted"]
    /\ qpc' = [qpc EXCEPT ![r] = "done"]
    /\ UNCHANGED <<cfgVars, regVars, hdrVars, calls, bids, pFork, blindedBlock, currentSlotUID,
                   originalBid, received, ctxCancelled, spc, pIdx, qerr, qresp, psent,
                   pret>>

PayloadIdle ==
    /\ currentSlotUID = EmptyString
    /\ originalBid = EmptyBidResp
    /\ resultCh = <<>>
    /\ received = FALSE
    /\ ctxCancelled = FALSE
    /\ spc = "idle"
    /\ pIdx = 0
    /\ qpc = [r \in RelayIds |-> "idle"]
    /\ qerr = [r \in RelayIds |-> NoError]
    /\ qresp = [r \in RelayIds |-> Null]
    /\ qlog = [r \in RelayIds |-> "none"]
    /\ psent = [r \in RelayIds |-> NoRequest]
    /\ presult = Null
    /\ pret = NoReturn

CallIds == 1..MaxCalls
NoCalls == [c \in CallIds |-> [kind |-> "none", slot |-> 0, pc |-> "done", uid |-> EmptyString]]

EmptyCache == [k \in BidKeys |-> EmptyBidResp]
NoBlock == [slot |-> 0, blockHash |-> nilHash, commitments |-> <<>>]

ZeroSlotUID == [slot |-> 0, uid |-> NilUUID]

HeaderIdle ==
    /\ hUID = NilUUID
    /\ hIdx = 0
    /\ wg = 0
    /\ tpc = [r \in RelayIds |-> "idle"]
    /\ responsePayload = [r \in RelayIds |-> NoResponse]
    /\ sent = [r \in RelayIds |-> NoRequest]
    /\ result = EmptyBidResp
    /\ relays = [h \in Hashes |-> <<>>]
    /\ hret = NoReturn

Init ==
    /\ mRelays \in 0..MaxRelays
    /\ relayMinBid \in Values
    /\ skipSigCheck \in BOOLEAN
    /\ slotUID = ZeroSlotUID
    /\ nextUID = 1
    /\ hSlot \in {0, MaxSlot}
    /\ hPubkey \in {HexString(l, 1) : l \in {PubkeyHexLen - 1, PubkeyHexLen, PubkeyHexLen + 1}}
    /\ hParentHashHex \in {HexString(l, 1) : l \in {HashHexLen - 1, HashHexLen, HashHexLen + 1}}
    /\ hpc = "entry"
    /\ HeaderIdle
    /\ bids = EmptyCache /\ pFork = "deneb" /\ blindedBlock = NoBlock /\ ppc = "idle"
    /\ PayloadIdle
    /\ calls = NoCalls

Next ==
    \/ GetHeaderCheckArgs
    \/ GetHeaderObserve
    \/ GetHeaderSpawn
    \/ \E r \in Relays : RelayRespond(r)
    \/ \E r \in Relays : RankStep(r)
    \/ GetHeaderReturn

Spec == Init /\ [][Next]_vars

\* a bid record as the HTTP layer caches it after getHeader
CachedBid(slot, blockHash, rs) ==
    LET p == [kind |-> "bid", blockHash |-> blockHash, value |-> 1, pubkey |-> 1,
              sig |-> "valid", parentHash |-> 1, txRoot |-> OtherTxRoot]
    IN [response |-> p, bidInfo |-> BidInfoOf(p), relays |-> rs]

\* one getPayload call: any fork, a block of the last slot or of slot 0, a
\* cache that is empty or holds one record (with or without relays) for the
\* last slot
PayloadInit ==
    /\ mRelays \in 0..MaxRelays
    /\ relayMinBid = 0
    /\ skipSigCheck = FALSE
    /\ slotUID = ZeroSlotUID
    /\ nextUID = 1
    /\ hSlot = 0
    /\ hPubkey = HexString(PubkeyHexLen, 1)
    /\ hParentHashHex = HexString(HashHexLen, 1)
    /\ hpc = "idle"
    /\ HeaderIdle
    /\ bids \in {EmptyCache}
            \cup {[EmptyCache EXCEPT ![bidKey(MaxSlot, MaxHash)] = CachedBid(MaxSlot, MaxHash, rs)] :
                     rs \in {<<>>, <<1>>}}
    /\ pFork \in Forks
    /\ blindedBlock \in [slot : {0, MaxSlot}, blockHash : {MaxHash},
                          commitments : {BlockCommitments(k) : k \in 0..MaxBlobs}]
    /\ ppc = "entry"
    /\ PayloadIdle
    /\ calls = NoCalls

PayloadNext ==
    \/ GetPayloadSlotUID
    \/ GetPayloadGetBid
    \/ GetPayloadPrepare
    \/ GetPayloadSpawn
    \/ GetPayloadAwait
    \/ GetPayloadReceive
    \/ GetPayloadReturn
    \/ SentinelWake
    \/ SentinelSend
    \/ \E r \in Relays : PayloadRequestFails(r)
    \/ \E r \in Relays : PayloadHandleError(r)
    \/ \E r \in Relays : PayloadRespond(r)
    \/ \E r \in Relays : PayloadCancel(r)
    \/ \E r \in Relays : PayloadCAS(r)
    \/ \E r \in Relays : PayloadSend(r)

SpecPayload == PayloadInit /\ [][PayloadNext]_vars

FairSpecPayload ==
    /\ SpecPayload
    /\ WF_vars(GetPayloadSlotUID) /\ WF_vars(GetPayloadGetBid) /\ WF_vars(GetPayloadPrepare)
    /\ WF_vars(GetPayloadSpawn) /\ WF_vars(GetPayloadAwait) /\ WF_vars(GetPayloadReceive)
    /\ WF_vars(GetPayloadReturn) /\ WF_vars(SentinelWake) /\ WF_vars(SentinelSend)

\* one getPayload call against every registry getHeader can have left behind:
\* the zero value, or a slot above 0 with a generated uid
PayloadUIDInit ==
    /\ mRelays \in 0..MaxRelays
    /\ relayMinBid = 0
    /\ skipSigCheck = FALSE
    /\ slotUID \in {ZeroSlotUID} \cup {[slot |-> s, uid |-> [id |-> 1]] : s \in 1..MaxSlot}
    /\ nextUID = IF slotUID = ZeroSlotUID THEN 1 ELSE 2
    /\ hSlot = 0
    /\ hPubkey = HexString(PubkeyHexLen, 1)
    /\ hParentHashHex = HexString(HashHexLen, 1)
    /\ hpc = "idle"
    /\ HeaderIdle
    /\ bids = EmptyCache
    /\ pFork \in Forks
    /\ blindedBlock \in [slot : Slots, blockHash : {MaxHash}, commitments : {<<>>}]
    /\ ppc = "entry"
    /\ PayloadIdle
    /\ calls = NoCalls

SpecPayloadUID == PayloadUIDInit /\ [][PayloadNext]_vars

\* every goroutine of the race is scheduled: the caller, the timeout goroutine
\* and each relay goroutine at its send (a send that can proceed does proceed)
FairSpecRace ==
    /\ SpecPayloadUID
    /\ WF_vars(GetPayloadSlotUID) /\ WF_vars(GetPayloadGetBid) /\ WF_vars(GetPayloadPrepare)
    /\ WF_vars(GetPayloadSpawn) /\ WF_vars(GetPayloadAwait) /\ WF_vars(GetPayloadReceive)
    /\ WF_vars(GetPayloadReturn) /\ WF_vars(SentinelWake) /\ WF_vars(SentinelSend)
    /\ \A r \in RelayIds : WF_vars(PayloadSend(r))

\* ------------------------------------------- concurrent calls on the registry
\* call c of getHeader runs the critical section on m.slotUID
CallObserve(c) ==
    /\ calls[c].kind = "getHeader"
    /\ calls[c].pc = "entry"
    /\ slotUID' = ObserveSlot(slotUID, calls[c].slot, [id |-> nextUID])
    /\ nextUID' = IF slotUID' # slotUID THEN nextUID + 1 ELSE nextUID
    /\ calls' = [calls EXCEPT ![c].uid = UIDString(slotUID'.uid), ![c].pc = "done"]
    /\ UNCHANGED <<cfgVars, hdrVars, payVars>>

\* call c of getPayload runs the critical section on m.slotUID
CallLookup(c) ==
    /\ calls[c].kind = "getPayload"
    /\ calls[c].pc = "entry"
    /\ calls' = [calls EXCEPT ![c].uid = LookupSlotUID(slotUID, calls[c].slot),
                              ![c].pc = "done"]
    /\ UNCHANGED <<cfgVars, regVars, hdrVars, payVars>>

RegistryInit ==
    /\ mRelays = 0
    /\ relayMinBid = 0
    /\ skipSigCheck = FALSE
    /\ slotUID = ZeroSlotUID
    /\ nextUID = 1
    /\ hSlot = 0
    /\ hPubkey = HexString(PubkeyHexLen, 1)
    /\ hParentHashHex = HexString(HashHexLen, 1)
    /\ hpc = "idle"
    /\ HeaderIdle
    /\ bids = EmptyCache /\ pFork = "deneb" /\ blindedBlock = NoBlock /\ ppc = "idle"
    /\ PayloadIdle
    /\ calls \in [CallIds -> [kind : {"getHeader", "getPayload"}, slot : Slots,
                              pc : {"entry"}, uid : {EmptyString}]]

RegistryNext ==
    \/ \E c \in CallIds : CallObserve(c)
    \/ \E c \in CallIds : CallLookup(c)

SpecRegistry == RegistryInit /\ [][RegistryNext]_vars

\* ==================================================================== claims
\* relays whose bid passed the validation and reached (or waits for) the mutex
Accepted == {r \in Relays : responsePayload[r] # NoResponse}
Returned == hpc = "returned" /\ hret.err = "nil"

\* the ranking step applied to the accepted bids in the order of m.relays
RECURSIVE InRelayOrder(_)
InRelayOrder(k) ==
    IF k = 0 THEN EmptyBidResp
    ELSE LET prev == InRelayOrder(k - 1) IN
         IF k \notin Accepted THEN prev
         ELSE IF Replaces(prev, BidInfoOf(responsePayload[k]))
              THEN [prev EXCEPT !.response = responsePayload[k],
                                !.bidInfo = BidInfoOf(responsePayload[k])]
              ELSE prev

\* C1: whatever the order in which the relay goroutines reached the ranking
\* step, the value and block hash getHeader returns are those the same
\* responses give when ranked in the order of m.relays.
C1_OrderIndependent ==
    Returned =>
        /\ hret.result.bidInfo.value = InRelayOrder(mRelays).bidInfo.value
        /\ hret.result.bidInfo.blockHash = InRelayOrder(mRelays).bidInfo.blockHash

\* two accepted bids tie on value; the later relay of m.relays has the
\* smaller hash and its bid is returned
C1_WitnessTie ==
    /\ Returned
    /\ \E a, b \in Accepted :
         /\ a < b
         /\ responsePayload[a].value = responsePayload[b].value
         /\ responsePayload[a].blockHash > responsePayload[b].blockHash
         /\ hret.result.response = responsePayload[b]

\* the candidate of relay r beats the current best
Beats(r) ==
    LET c == responsePayload[r] IN
    \/ IsEmpty(result.response)
    \/ c.value > result.bidInfo.value
    \/ c.value = result.bidInfo.value /\ c.blockHash < result.bidInfo.blockHash

C2_RankingStep ==
    \A r \in RelayIds :
        (tpc[r] = "ranking" /\ tpc'[r] = "done") =>
            /\ (result'.response = responsePayload[r]) <=> Beats(r)
            /\ ~Beats(r) => result' = result

C2_WinnerIsBest ==
    Returned =>
        IF Accepted = {} THEN IsEmpty(hret.result.response)
        ELSE /\ \E r \in Accepted : hret.result.response = responsePayload[r]
             /\ \A r \in Accepted :
                  \/ responsePayload[r].value < hret.result.bidInfo.value
                  \/ /\ responsePayload[r].value = hret.result.bidInfo.value
                     /\ responsePayload[r].blockHash >= hret.result.bidInfo.blockHash

\* C2: a candidate replaces the best bid iff there is none yet, or its value
\* is strictly greater, or its value is equal and its block hash strictly
\* smaller; the bid returned has the maximal value among the accepted bids
\* and the smallest block hash among those of maximal value.
C2_TieBreak == [][C2_RankingStep]_vars /\ []C2_WinnerIsBest

\* two accepted bids of equal value: the later one in m.relays has the
\* smaller hash and wins
C2_Witness ==
    /\ Returned
    /\ \E a, b \in Accepted :
         /\ responsePayload[a].value = responsePayload[b].value
         /\ responsePayload[a].blockHash < responsePayload[b].blockHash
         /\ hret.result.response = responsePayload[a]
         /\ relays[responsePayload[a].blockHash] = <<a>>

\* the acceptance conditions as the specification lists them
PassesAll(r, p) ==
    /\ p.kind = "bid"
    /\ p.blockHash # nilHash
    /\ p.pubkey = r
    /\ HashString(p.parentHash) = hParentHashHex
    /\ p.value # 0
    /\ p.txRoot # EmptyListTxRoot
    /\ ~skipSigCheck => p.sig = "valid"

\* C3: the best bid and every slot-book entry come from a response with a
\* non-zero block hash, the relay's own pubkey, the proposer's parent hash, a
\* non-zero value, a txRoot that is not the empty-list sentinel and, when
\* signatures are checked, a verified signature.
C3_OnlyValidRecorded ==
    /\ \A h \in Hashes : \A i \in 1..Len(relays[h]) :
          /\ PassesAll(relays[h][i], responsePayload[relays[h][i]])
          /\ responsePayload[relays[h][i]].blockHash = h
    /\ ~IsEmpty(result.response) =>
          \E r \in Relays : result.response = responsePayload[r] /\ PassesAll(r, result.response)

\* a bid has been recorded with signature checking on, and another relay's
\* goroutine ended without any record
C3_Witness ==
    /\ ~skipSigCheck
    /\ ~IsEmpty(result.response)
    /\ \E h \in Hashes : relays[h] # <<>>
    /\ \E r \in Relays : tpc[r] = "done" /\ r \notin Accepted

\* C8: getHeader has returned only if every relay goroutine it started is
\* done, and then every accepted bid has been through the ranking step.
C8_ReturnsAfterAllTasks ==
    Returned =>
        /\ \A r \in Relays : tpc[r] = "done"
        /\ \A r \in Accepted :
             \E i \in 1..Len(relays[responsePayload[r].blockHash]) :
                 relays[responsePayload[r].blockHash][i] = r

C8_Witness ==
    /\ Returned
    /\ mRelays = MaxRelays
    /\ Accepted # {}
    /\ Accepted # Relays

\* the elements of a sequence
Range(q) == {q[i] : i \in 1..Len(q)}

\* C11: when getHeader returns, the relays of the result are, as a set and
\* without repetition, the relays whose bid passed the validation and carried
\* the block hash of the returned bid; the list is empty iff no bid was
\* accepted.
C11_RelaysOfWinner ==
    Returned =>
        /\ Range(hret.result.relays) =
              {r \in Accepted : responsePayload[r].blockHash = hret.result.bidInfo.blockHash}
        /\ Len(hret.result.relays) = Cardinality(Range(hret.result.relays))
        /\ (hret.result.relays = <<>>) <=> (Accepted = {})
        /\ Accepted # {} =>
              \E r \in Range(hret.result.relays) : hret.result.response = responsePayload[r]

\* two relays delivered the winning hash, the later one of m.relays first
C11_Witness ==
    /\ Returned
    /\ hret.result.relays = <<2, 1>>
    /\ relayMinBid > 0

\* relays whose goroutine ended without passing the validation
Rejected == {r \in Relays : tpc[r] = "done" /\ r \notin Accepted}

C17_RejectStep ==
    \A r \in RelayIds :
        (tpc[r] = "running" /\ tpc'[r] = "done") =>
            /\ result' = result /\ relays' = relays
            /\ hpc' = hpc /\ hret' = hret
            /\ responsePayload' = responsePayload
            /\ wg' = wg - 1
            /\ \A o \in RelayIds \ {r} : tpc'[o] = tpc[o]

C17_NoTrace ==
    /\ \A r \in Rejected :
          /\ \A h \in Hashes : r \notin Range(relays[h])
          /\ result.response.pubkey # r
    /\ (hpc = "returned" /\ ArgError(hPubkey, hParentHashHex) = "nil") =>
          /\ hret.err = "nil"
          /\ Range(hret.result.relays) \cap Rejected = {}
          /\ IF Accepted = {} THEN hret.result = EmptyBidResp
             ELSE \E a \in Accepted :
                    /\ hret.result.response = responsePayload[a]
                    /\ \A b \in Accepted :
                          Cmp(responsePayload[b].value, responsePayload[a].value) # 1

\* C17: a relay goroutine that ends on a request error, a 204, an empty or
\* unparsable response or a failed validation leaves the best bid, the
\* slot-book, the other goroutines and the caller as they are; what
\* getHeader returns is determined by the accepted bids alone, with no error,
\* and is the empty bid when every relay failed.
C17_RejectedLeavesNoTrace == [][C17_RejectStep]_vars /\ []C17_NoTrace

\* relay 1 failed and relay 2's bid was accepted: relay 2's bid is returned
\* with relay 2 alone
C17_Witness ==
    /\ Returned
    /\ mRelays = MaxRelays
    /\ Rejected = {1}
    /\ hret.result.response = responsePayload[2]
    /\ hret.result.relays = <<2>>

\* C18: every bid in the slot-book, the best bid and the bid returned have a
\* value not below m.relayMinBid; a response below the minimum is never
\* accepted, and one that meets every other condition with a value equal to
\* the minimum is accepted (for every response, at the configuration and
\* the arguments of a call that passed the length checks).
C18_MinBid ==
    /\ \A r \in Accepted : responsePayload[r].value >= relayMinBid
    /\ \A h \in Hashes : \A i \in 1..Len(relays[h]) :
          responsePayload[relays[h][i]].value >= relayMinBid
    /\ ~IsEmpty(result.response) => result.bidInfo.value >= relayMinBid
    /\ (Returned /\ ~IsEmpty(hret.result.response)) =>
          hret.result.bidInfo.value >= relayMinBid
    /\ hpc = "observe" => \A r \in Relays : \A p \in BidResponses :
          LET v == Validate(r, p, hParentHashHex, skipSigCheck, relayMinBid) IN
          /\ p.value < relayMinBid => v # "accepted"
          /\ (PassesAll(r, p) /\ p.value = relayMinBid) => v = "accepted"
          /\ v = "belowMinBid" => p.value < relayMinBid

\* the bid returned has exactly the minimum value, at the largest minimum;
\* the other relay's goroutine ended without a record
C18_Witness ==
    /\ Returned
    /\ relayMinBid = MaxValue
    /\ hret.result.bidInfo.value = relayMinBid
    /\ hret.result.relays # <<>>
    /\ Rejected # {}

\* C9: a pubkey that is not 98 characters long gives errInvalidPubkey,
\* otherwise a parent hash that is not 66 characters long gives
\* errInvalidHash; the bid returned is empty, no relay request has been
\* issued and the slot-UID registry is as it was.
C9_ArgumentErrors ==
    LET bad == hPubkey.len # PubkeyHexLen \/ hParentHashHex.len # HashHexLen IN
    /\ bad =>
          /\ \A r \in RelayIds : sent[r] = NoRequest /\ tpc[r] = "idle"
          /\ slotUID = ZeroSlotUID /\ nextUID = 1
          /\ hpc \in {"entry", "returned"}
    /\ (bad /\ hpc = "returned") =>
          /\ hret.result = EmptyBidResp
          /\ hret.err = IF hPubkey.len # PubkeyHexLen THEN "errInvalidPubkey"
                        ELSE "errInvalidHash"
    /\ (~bad /\ hpc = "returned") => hret.err = "nil"

\* rejected for the parent hash alone, for a slot that would have advanced
\* the registry
C9_Witness ==
    /\ hpc = "returned"
    /\ hret.err = "errInvalidHash"
    /\ hSlot > slotUID.slot
    /\ mRelays > 0

\* relay goroutines that won the swap: about to post, or having posted
Posters == {r \in RelayIds : qpc[r] = "send" \/ qlog[r] = "posted"}
\* payloads on their way to the caller: buffered in resultCh or received
Delivered ==
    Cardinality({i \in 1..Len(resultCh) : resultCh[i] # Null})
        + (IF presult # Null THEN 1 ELSE 0)

\* C4: at most one relay goroutine of a getPayload race wins the swap on
\* received and posts; a goroutine that passed the checks later discards its
\* response; at most one payload is on its way to the caller, and it is the
\* winner's.
C4_SinglePoster ==
    /\ Cardinality(Posters) <= 1
    /\ Delivered <= 1
    /\ Delivered = 1 => \E r \in Posters : qlog[r] = "posted"
    /\ \A r \in Posters : received
    /\ \A r \in RelayIds : qlog[r] = "discarded" =>
          received /\ qresp[r] # Null /\ \E w \in Posters : w # r
    /\ (ppc = "returned" /\ pret.payload # Null) =>
          pret.payload = qresp[pret.payload.relay] /\ pret.payload.relay \in Posters

\* one relay posted and its payload was returned; another one passed the
\* checks too and discarded its response
C4_Witness ==
    /\ ppc = "returned"
    /\ \E a, b \in Relays :
         /\ qlog[a] = "posted" /\ pret.payload = qresp[a]
         /\ qlog[b] = "discarded" /\ qresp[b] # qresp[a]

\* the payload agrees with the blinded block the way the specification asks
Coherent(p) ==
    /\ pFork = "deneb" => p.version = "deneb"
    /\ pFork = "electra" => p.version = "electra"
    /\ p.blockHash = blindedBlock.blockHash
    /\ p.blobs = Len(blindedBlock.commitments)
    /\ Len(p.commitments) = Len(blindedBlock.commitments)
    /\ p.proofs = Len(blindedBlock.commitments)
    /\ \A i \in 1..Len(blindedBlock.commitments) :
          p.commitments[i] = blindedBlock.commitments[i]

\* C5: a non-null payload returned by getPayload (or on its way to the
\* caller) has the fork's version, the blinded block's block hash, blob,
\* commitment and proof vectors as long as the block's commitments, and the
\* block's commitments at every index.
C5_PayloadCoherent ==
    /\ (ppc = "returned" /\ pret.payload # Null) => Coherent(pret.payload)
    /\ presult # Null => Coherent(presult)
    /\ \A i \in 1..Len(resultCh) : resultCh[i] # Null => Coherent(resultCh[i])

\* a payload with as many blobs as the bound allows was returned, while
\* another relay's response was rejected
C5_Witness ==
    /\ ppc = "returned"
    /\ pret.payload # Null
    /\ Len(blindedBlock.commitments) = MaxBlobs
    /\ \E r \in Relays : qlog[r] = "invalid"

PayloadReturned == ppc = "returned"
NoRelayPosted == \A r \in RelayIds : qlog[r] # "posted"

\* C7: getPayload returns in every (fair) execution; when no relay goroutine
\* has posted, the timeout goroutine has posted nil and the call returns nil;
\* in every case it returns the bid cached for the block's slot and hash.
C7_AlwaysReturns ==
    /\ <>PayloadReturned
    /\ [](PayloadReturned =>
            /\ pret.bid = bids[bidKey(blindedBlock.slot, blindedBlock.blockHash)]
            /\ NoRelayPosted => (pret.payload = Null /\ spc = "done"))

\* nil and a cached bid were returned although one relay's response was
\* invalid and another's request never came back
C7_Witness ==
    /\ PayloadReturned
    /\ pret.payload = Null
    /\ pret.bid # EmptyBidResp
    /\ \E a, b \in Relays : qlog[a] = "invalid" /\ qpc[b] = "requesting"

\* relay w's response has passed the checks and w has cancelled requestCtx
HasCancelled(w) == qresp[w] # Null /\ qpc[w] # "passed"

\* C10 as stated: a goroutine whose request failed never posts, and its error
\* is logged as cancelled exactly when it is a cancellation that another
\* relay's accepted response caused.
C10_CancelledIffAnotherWon ==
    \A r \in RelayIds :
        (qerr[r] # NoError /\ qpc[r] = "done") =>
            /\ r \notin Posters
            /\ qlog[r] = "cancelled" <=>
                 (qerr[r] = "canceled" /\ \E w \in RelayIds : w # r /\ HasCancelled(w))

C10_ErrorStep ==
    \A r \in RelayIds :
        (qpc[r] = "failed" /\ qpc'[r] = "done") =>
            /\ qlog'[r] = (IF ctxCancelled THEN "cancelled" ELSE "error")
            /\ resultCh' = resultCh /\ presult' = presult /\ received' = received

C10_ErrorNeverPosts ==
    \A r \in RelayIds :
        qerr[r] # NoError =>
            /\ qresp[r] = Null /\ r \notin Posters
            /\ qlog[r] \in {"none", "cancelled", "error"}
            /\ qlog[r] = "cancelled" =>
                 /\ ctxCancelled
                 /\ ppc = "returned" \/ \E w \in RelayIds : w # r /\ HasCancelled(w)

\* C10, amended: a goroutine whose request failed never posts; its error is
\* logged as cancelled exactly when requestCtx is cancelled at the time the
\* error is handled (by a relay whose response passed the checks, or by the
\* deferred cancel of a getPayload that has returned), whatever the error is;
\* every other error is logged at error level.
C10_CancelledIffContextCancelled == [][C10_ErrorStep]_vars /\ []C10_ErrorNeverPosts

\* a request that failed on its own is logged as cancelled, another one at
\* error level
C10_Witness ==
    \E a, b \in Relays :
        /\ qerr[a] = "failed" /\ qlog[a] = "cancelled"
        /\ qerr[b] = "failed" /\ qlog[b] = "error"

\* the payload timeout has fired: time.Sleep of the timeout goroutine is over
TimeoutFired == spc \in {"sending", "done"}

C12_CancelStep ==
    /\ ctxCancelled => ctxCancelled'
    /\ (~ctxCancelled /\ ctxCancelled') =>
          \/ \E r \in RelayIds : qpc[r] = "passed" /\ qpc'[r] = "cas"
          \/ ppc = "received" /\ ppc' = "returned"

C12_CancelledOnlyAfter ==
    /\ \A r \in RelayIds :
          (qpc[r] \in {"cas", "send"} \/ qlog[r] \in {"posted", "discarded"}) => ctxCancelled
    /\ ppc = "returned" => ctxCancelled
    /\ ctxCancelled =>
          \/ \E r \in RelayIds : HasCancelled(r)
          \/ TimeoutFired /\ spc = "done" /\ ppc = "returned" /\ pret.payload = Null

\* C12: in every getPayload execution requestCtx becomes cancelled, and stays
\* so; a relay goroutine whose response passed the checks cancels it before
\* its swap on received; once the timeout has fired it becomes cancelled (the
\* caller receives a value and its deferred cancel runs); it is not cancelled
\* before a response has passed the checks or the timeout has fired.
C12_ScopeCancelled ==
    /\ <>ctxCancelled
    /\ TimeoutFired ~> ctxCancelled
    /\ [][C12_CancelStep]_vars
    /\ []C12_CancelledOnlyAfter

\* the timeout path: nil was returned and requestCtx is cancelled although no
\* response has passed the checks; one request is still in flight
C12_Witness ==
    /\ ppc = "returned"
    /\ pret.payload = Null
    /\ ctxCancelled
    /\ \A r \in RelayIds : ~HasCancelled(r)
    /\ \E r \in Relays : qpc[r] = "requesting"

C13_RejectStep ==
    \A r \in RelayIds :
        (qpc[r] = "requesting" /\ qlog'[r] = "invalid") =>
            /\ qpc'[r] = "done" /\ qresp'[r] = Null
            /\ resultCh' = resultCh /\ presult' = presult
            /\ ctxCancelled' = ctxCancelled /\ received' = received
            /\ \A o \in RelayIds \ {r} : qpc'[o] = qpc[o] /\ qlog'[o] = qlog[o]

C13_RejectedHasNoEffect ==
    /\ \A r \in RelayIds :
          qlog[r] = "invalid" => (r \notin Posters /\ qresp[r] = Null /\ qpc[r] = "done")
    /\ received => Posters # {}
    /\ \A b \in RelayIds :
          (qlog[b] = "posted" /\ spc # "done") =>
              /\ ppc \in {"received", "returned"} => presult = qresp[b]
              /\ ppc \notin {"received", "returned"} => resultCh = <<qresp[b]>>
              /\ ppc = "returned" => pret.payload = qresp[b]

\* C13: a relay goroutine whose response fails a check ends without posting,
\* without cancelling requestCtx and without setting received, and leaves the
\* other goroutines as they are; received is set only by a goroutine that
\* posts, so a response of another relay that passes the checks afterwards
\* and is posted before the timeout goroutine's nil is the value the caller
\* receives and returns.
C13_InvalidDoesNotBlock == [][C13_RejectStep]_vars /\ []C13_RejectedHasNoEffect

\* relay 1's response was rejected; relay 2's passed the checks and was
\* returned before the timeout
C13_Witness ==
    /\ ppc = "returned"
    /\ mRelays = MaxRelays
    /\ qlog[1] = "invalid"
    /\ qlog[2] = "posted"
    /\ pret.payload = qresp[2]
    /\ spc = "sleeping"

\* the cache has no record for the block, or one without relays
NoUsableBid ==
    LET b == bids[bidKey(blindedBlock.slot, blindedBlock.blockHash)] IN
    IsEmpty(b.response) \/ Len(b.relays) = 0

AllRelaysCalled == \A r \in Relays : psent[r].issued

C14_AfterLookup ==
    /\ ppc \in {"receive", "received", "returned"} => (AllRelaysCalled /\ spc # "idle")
    /\ ppc \notin {"entry", "getBid"} =>
          originalBid = bids[bidKey(blindedBlock.slot, blindedBlock.blockHash)]
    /\ ppc = "returned" =>
          /\ pret.bid = bids[bidKey(blindedBlock.slot, blindedBlock.blockHash)]
          /\ IsEmpty(bids[bidKey(blindedBlock.slot, blindedBlock.blockHash)].response) =>
                pret.bid = EmptyBidResp

\* C14: whatever the bid cache holds for (slot, blockHash) - nothing, a
\* record without relays, a record with relays - getPayload goes on: it
\* starts the timeout goroutine and sends the block to every relay of
\* m.relays before it waits, returns the cached record (the empty record on a
\* miss) as originalBid, and leaves m.bids as it was.
C14_CacheMissContinues ==
    /\ <>(AllRelaysCalled /\ ppc = "returned")
    /\ [][bids' = bids]_vars
    /\ []C14_AfterLookup

\* a cache miss: the race ran all the same and a relay's payload was returned
\* with the empty record
C14_Witness ==
    /\ ppc = "returned"
    /\ NoUsableBid
    /\ pret.bid = EmptyBidResp
    /\ pret.payload # Null
    /\ mRelays = MaxRelays

C15_Attached ==
    LET sameSlot == slotUID.slot = blindedBlock.slot IN
    /\ ppc # "entry" =>
          /\ sameSlot => currentSlotUID = UIDString(slotUID.uid)
          /\ ~sameSlot => currentSlotUID = EmptyString
          /\ (currentSlotUID = UIDString(slotUID.uid)) <=> sameSlot
    /\ \A r \in RelayIds : psent[r].issued =>
          /\ sameSlot => psent[r].slotUID = UIDString(slotUID.uid)
          /\ ~sameSlot => psent[r].slotUID = EmptyString
    /\ ppc \in {"receive", "received", "returned"} => AllRelaysCalled

\* C15: the SlotUID header of every relay request of getPayload is the
\* registry's uid when the registry's slot equals the blinded block's slot,
\* and the empty string when it does not; in both cases every relay is
\* called; no step of getPayload changes the registry.
C15_UIDIffSameSlot ==
    /\ []C15_Attached
    /\ [][slotUID' = slotUID /\ nextUID' = nextUID]_vars

\* the registry is at a later slot than the block: the requests went out
\* with the empty UID and a payload was returned all the same
C15_Witness ==
    /\ ppc = "returned"
    /\ slotUID.slot > blindedBlock.slot
    /\ slotUID.uid # NilUUID
    /\ mRelays = MaxRelays
    /\ \A r \in Relays : psent[r] = [issued |-> TRUE, slotUID |-> EmptyString]
    /\ pret.payload # Null

NothingSent == [kind |-> "nothing"]
\* the first value sent on resultCh so far: the one the caller has received,
\* else the oldest one buffered
FirstSent ==
    IF ppc \in {"received", "returned"} THEN presult
    ELSE IF resultCh # <<>> THEN Head(resultCh)
    ELSE NothingSent

C16_ChannelStep ==
    \* the first value sent stays the first
    /\ FirstSent # NothingSent => FirstSent' = FirstSent
    \* a payload sent before any nil is the first value
    /\ \A r \in RelayIds :
          (qpc[r] = "send" /\ qpc'[r] = "done" /\ FirstSent = NothingSent) =>
              FirstSent' = qresp[r]
    \* the buffer shrinks, and the caller's result is set, only by the one receive
    /\ (Len(resultCh') < Len(resultCh) \/ presult' # presult) =>
          /\ ppc = "receive" /\ ppc' = "received"
          /\ Len(resultCh') >= Len(resultCh) - 1
    /\ ppc \in {"received", "returned"} => ppc' \in {"received", "returned"}

C16_ReturnsFirst ==
    /\ ppc = "returned" => pret.payload = FirstSent
    /\ FirstSent = Null =>
          /\ spc = "done"
          /\ \A r \in RelayIds : qlog[r] = "posted" =>
                \E i \in 1..Len(resultCh) : resultCh[i] = qresp[r]
    /\ (ppc \in {"received", "returned"} /\ presult # Null) =>
          \E r \in RelayIds : qlog[r] = "posted" /\ presult = qresp[r]

\* C16: the caller receives from resultCh once; what it receives and returns
\* is the first value sent: a payload sent before the timeout goroutine's nil
\* is returned, and nil is returned only when the timeout goroutine sent
\* before any relay goroutine (a payload sent after it stays in the buffer).
C16_FirstValueWins == [][C16_ChannelStep]_vars /\ []C16_ReturnsFirst

\* a payload was sent first and returned; the timeout goroutine's nil, sent
\* after it, stays in the buffer
C16_Witness ==
    /\ ppc = "returned"
    /\ pret.payload # Null
    /\ spc = "done"
    /\ resultCh = <<Null>>
    /\ \E r \in Relays : qpc[r] = "requesting"

C19_LookupStep ==
    \A c \in CallIds :
        (/\ calls[c].kind = "getPayload"
         /\ calls[c].pc = "entry" /\ calls'[c].pc = "done"
         /\ calls'[c].uid # EmptyString) =>
            /\ slotUID.slot = calls[c].slot
            /\ \A a \in CallIds :
                  (/\ calls[a].kind = "getHeader"
                   /\ calls[a].pc = "done"
                   /\ calls[a].slot = calls[c].slot) =>
                      calls[a].uid = calls'[c].uid

\* C19: over every interleaving of getHeader and getPayload calls, when a
\* getPayload call for slot s takes a non-empty UID from the registry, every
\* getHeader call for slot s that went through the registry before it used
\* that same UID.
C19_SameUIDForSlot == [][C19_LookupStep]_vars

\* two getHeader calls and a getPayload call for the last slot used the one
\* generated uid
C19_Witness ==
    \E a, b, c \in CallIds :
        /\ a # b
        /\ calls[a].kind = "getHeader" /\ calls[a].pc = "done"
        /\ calls[b].kind = "getHeader" /\ calls[b].pc = "done"
        /\ calls[c].kind = "getPayload" /\ calls[c].pc = "done"
        /\ calls[a].slot = MaxSlot /\ calls[b].slot = MaxSlot /\ calls[c].slot = MaxSlot
        /\ calls[c].uid # EmptyString
        /\ calls[c].uid # UIDString(NilUUID)
        /\ calls[a].uid = calls[c].uid /\ calls[b].uid = calls[c].uid

\* goroutines at a send on resultCh
Senders == {r \in RelayIds : qpc[r] = "send"}
SentinelAtSend == spc = "sending"

C20_RoomForSenders ==
    \* no more than the timeout goroutine and one relay goroutine ever send
    /\ Cardinality(Senders) <= 1
    /\ Len(resultCh) <= mRelays
    \* a send can wait only for the caller's receive, never after it
    /\ ((SentinelAtSend \/ Senders # {}) /\ ppc \in {"received", "returned"}) => CanSend
    /\ ((SentinelAtSend \/ Senders # {}) /\ ~CanSend) =>
          ppc \in {"getBid", "prepare", "loop"} \/ (ppc = "receive" /\ resultCh # <<>>)

\* C20: for every number of relays, each send on resultCh - the timeout
\* goroutine's nil and the payload of the relay goroutine that won the swap -
\* completes; a send waits at most for the caller's one receive, and after
\* the caller has received or returned every send proceeds at once.
C20_NoSendBlocksForever ==
    /\ SentinelAtSend ~> (spc = "done")
    /\ \A r \in RelayIds : (qpc[r] = "send") ~> (qpc[r] = "done")
    /\ []C20_RoomForSenders

\* one relay: its payload and the timeout goroutine's nil were both sent, the
\* second of them into the buffer after the caller's receive
C20_Witness ==
    /\ mRelays = 1
    /\ ppc = "returned"
    /\ spc = "done"
    /\ qlog[1] = "posted"
    /\ Len(resultCh) = 1

C6_RegistryStep ==
    /\ slotUID'.slot >= slotUID.slot
    /\ (slotUID'.uid # slotUID.uid) <=> (slotUID'.slot > slotUID.slot)
    /\ slotUID'.slot > slotUID.slot =>
          /\ slotUID'.uid.id >= nextUID /\ nextUID' > slotUID'.uid.id
          /\ \A c \in CallIds : calls[c].uid # UIDString(slotUID'.uid)
    /\ \A c \in CallIds :
          (calls[c].kind = "getHeader" /\ calls[c].pc = "entry" /\ calls'[c].pc = "done") =>
              /\ slotUID'.slot = IF calls[c].slot > slotUID.slot THEN calls[c].slot
                                 ELSE slotUID.slot
              /\ calls[c].slot <= slotUID.slot =>
                    /\ slotUID' = slotUID /\ nextUID' = nextUID
                    /\ calls'[c].uid = UIDString(slotUID.uid)
    /\ \A c \in CallIds :
          (calls[c].kind = "getPayload" /\ calls'[c] # calls[c]) =>
              slotUID' = slotUID /\ nextUID' = nextUID

\* C6: over every interleaving of getHeader and getPayload calls the
\* registry's slot never decreases; the uid changes exactly when the slot
\* strictly increases, to a value never used before; a getHeader call for a
\* slot not greater than the registry's leaves the registry as it is and uses
\* its current uid.
C6_RegistryMonotonic == [][C6_RegistryStep]_vars

\* a getHeader call for an older slot ran after the registry had advanced and
\* used the newer uid
C6_Witness ==
    \E a, b \in CallIds :
        /\ calls[a].kind = "getHeader" /\ calls[a].pc = "done"
        /\ calls[b].kind = "getHeader" /\ calls[b].pc = "done"
        /\ calls[a].slot < calls[b].slot
        /\ slotUID.slot = calls[b].slot
        /\ calls[a].uid = UIDString(slotUID.uid)
        /\ calls[a].uid = calls[b].uid

====
